---- MODULE Spec2Model ----
(***************************************************************************)
(* Model of src/components/Map.tsx: the MapComponent React component that  *)
(* owns an OpenLayers map, an overlay vector layer and the Draw            *)
(* interactions armed by handleDraw.                                       *)
(*                                                                         *)
(* React state `drawType` is read only by the JSX (the cursor style), by   *)
(* no handler, so setDrawType is modelled as taking effect within the      *)
(* handler that calls it. React state `map` is read by handleDraw and by   *)
(* the second effect through the closure of the committed render, so       *)
(* setMap is modelled as a queued update that the Render action commits.   *)
(***************************************************************************)
EXTENDS Integers, Sequences, FiniteSets

\* Bound: number of Draw interactions handleDraw may create in one run.
MaxDraws == 3

NULL == "null"

\* The three values the buttons pass to handleDraw (lines 131-133).
Types == {"Point", "LineString", "Polygon"}

VARIABLES
    phase,         \* lifecycle position of the component
    map,           \* React state `map` as seen by the committed render
    drawType,      \* React state `drawType`
    target,        \* mapObject's target element
    layers,        \* mapObject.getLayers(), in order
    interactions,  \* Draw interactions on mapObject, in order of addInteraction
    features,      \* features of the overlay VectorSource, in order of addition
    log,           \* console.log output, in order
    nextId,        \* number of Draw objects created so far
    geocoder,      \* availability of the external geocoding service
    event          \* the callback that ran last

vars == <<phase, map, drawType, target, layers, interactions, features, log,
          nextId, geocoder, event>>

\* The value of React state `map` once setMap(mapObject) is committed.
MAP == "mapObject"

\* cursor: drawType ? 'crosshair' : 'default'   (line 128)
Cursor == IF drawType # NULL THEN "crosshair" ELSE "default"

\* The result texts the JSX shows: it renders the map container and three
\* buttons, and no element that shows a result (lines 125-136).
DisplaySlot == <<>>

\* The drawend dispatch on the captured `type` (lines 109-118).
DrawEndLog(type) ==
    IF type = "Point" THEN <<[label |-> "Point added:", args |-> <<"coords">>]>>
    ELSE IF type = "LineString" THEN <<[label |-> "Length:", args |-> <<"length">>]>>
    ELSE IF type = "Polygon" THEN <<[label |-> "Area:", args |-> <<"area">>]>>
    ELSE <<>>

\* A removal that drops the most recently added element, whatever d is.
RemoveLast(s, d) == IF s = <<>> THEN <<>> ELSE SubSeq(s, 1, Len(s) - 1)

\* Collection.remove: removes the first occurrence of d, if any.
RECURSIVE Remove(_, _)
Remove(s, d) ==
    IF s = <<>> THEN <<>>
    ELSE IF Head(s) = d THEN Tail(s)
    ELSE <<Head(s)>> \o Remove(Tail(s), d)

Range(s) == {s[i] : i \in DOMAIN s}

\* The component is mounted: no cleanup has run yet.
Mounted == phase \notin {"cleanup", "unmounted"}

Init ==
    /\ phase = "committed"
    /\ map = NULL
    /\ drawType = NULL
    /\ target = NULL
    /\ layers = <<>>
    /\ interactions = <<>>
    /\ features = <<>>
    /\ log = <<>>
    /\ nextId = 0
    /\ geocoder \in {"up", "down"}
    /\ event = [name |-> "mount"]

\* The passive effects of the first commit: the first effect creates the
\* map object and queues setMap (lines 25-49); the second effect sees
\* map === null and returns (line 53).
MountEffects ==
    /\ phase = "committed"
    /\ phase' = "effectsRun"
    /\ target' = "div"
    /\ layers' = <<"tile">>
    /\ event' = [name |-> "mountEffects"]
    /\ UNCHANGED <<map, drawType, interactions, features, log, nextId, geocoder>>

\* The re-render that commits the queued setMap(mapObject) (line 43).
Render ==
    /\ phase = "effectsRun"
    /\ phase' = "rerendered"
    /\ map' = MAP
    /\ event' = [name |-> "render"]
    /\ UNCHANGED <<drawType, target, layers, interactions, features, log,
                   nextId, geocoder>>

\* The second effect, re-run because `map` changed (lines 52-85).
LayerEffect ==
    /\ phase = "rerendered"
    /\ map # NULL
    /\ phase' = "ready"
    /\ layers' = Append(layers, "vector")
    /\ event' = [name |-> "layerEffect"]
    /\ UNCHANGED <<map, drawType, target, interactions, features, log,
                   nextId, geocoder>>

\* handleDraw with the null guard of line 89 placed after setDrawType.
handleDrawGuardLate(type) ==
    /\ Mounted
    /\ nextId < MaxDraws
    /\ event' = [name |-> "handleDraw", type |-> type]
    /\ drawType' = type
    /\ IF map = NULL \/ Len(layers) < 2
       THEN UNCHANGED <<interactions, nextId>>
       ELSE /\ nextId' = nextId + 1
            /\ interactions' =
                  Append(interactions, [id |-> nextId + 1, type |-> type])
    /\ UNCHANGED <<phase, map, target, layers, features, log, geocoder>>

\* handleDraw(type) (lines 88-122).
handleDraw(type) ==
    /\ Mounted
    /\ nextId < MaxDraws
    /\ event' = [name |-> "handleDraw", type |-> type]
    /\ IF map = NULL
       THEN \* line 89
            UNCHANGED <<drawType, interactions, nextId>>
       ELSE /\ drawType' = type                              \* line 92
            /\ IF Len(layers) < 2
               THEN \* item(1) is undefined: getSource throws (line 95)
                    UNCHANGED <<interactions, nextId>>
               ELSE /\ nextId' = nextId + 1                  \* lines 98-101
                    /\ interactions' =                       \* line 104
                          Append(interactions, [id |-> nextId + 1, type |-> type])
    /\ UNCHANGED <<phase, map, target, layers, features, log, geocoder>>

\* drawend that leaves its Draw interaction on the map (line 119 missing).
drawendKeepsInteraction(d) ==
    /\ Mounted
    /\ target # NULL
    /\ d \in Range(interactions)
    /\ log' = log \o DrawEndLog(d.type)
    /\ drawType' = NULL
    /\ features' = Append(features, d.type)
    /\ event' = [name |-> "drawend", draw |-> d.id]
    /\ UNCHANGED <<phase, map, target, layers, interactions, nextId, geocoder>>

\* drawend that dispatches on the current drawType instead of the captured
\* `type`.
drawendByDrawType(d) ==
    /\ Mounted
    /\ target # NULL
    /\ d \in Range(interactions)
    /\ log' = log \o DrawEndLog(drawType)
    /\ interactions' = Remove(interactions, d)
    /\ drawType' = NULL
    /\ features' = Append(features, d.type)
    /\ event' = [name |-> "drawend", draw |-> d.id]
    /\ UNCHANGED <<phase, map, target, layers, nextId, geocoder>>

\* drawend whose source is cleared before the finished feature is added.
drawendClearsSource(d) ==
    /\ Mounted
    /\ target # NULL
    /\ d \in Range(interactions)
    /\ log' = log \o DrawEndLog(d.type)
    /\ interactions' = Remove(interactions, d)
    /\ drawType' = NULL
    /\ features' = <<d.type>>
    /\ event' = [name |-> "drawend", draw |-> d.id]
    /\ UNCHANGED <<phase, map, target, layers, nextId, geocoder>>

\* The drawend listener of Draw interaction d (lines 107-121), followed by
\* the Draw interaction adding the finished feature to its source.
drawend(d) ==
    /\ Mounted
    /\ target # NULL
    /\ d \in Range(interactions)
    /\ log' = log \o DrawEndLog(d.type)                      \* lines 109-118
    /\ interactions' = Remove(interactions, d)               \* line 119
    /\ drawType' = NULL                                      \* line 120
    /\ features' = Append(features, d.type)
    /\ event' = [name |-> "drawend", draw |-> d.id]
    /\ UNCHANGED <<phase, map, target, layers, nextId, geocoder>>

\* Unmount: React runs the effect cleanups in declaration order. This is the
\* cleanup of the first effect, mapObject.setTarget(null) (lines 46-48); it
\* exists once the first effect has run. The cleanup of the second effect
\* follows when that effect has added the overlay.
Unmount ==
    /\ Mounted
    /\ phase' = IF phase = "ready" THEN "cleanup" ELSE "unmounted"
    /\ target' = NULL
    /\ event' = [name |-> "unmount"]
    /\ UNCHANGED <<map, drawType, layers, interactions, features, log, nextId,
                   geocoder>>

\* The cleanup of the second effect: map.removeLayer(vector) (lines 82-84).
LayerCleanup ==
    /\ phase = "cleanup"
    /\ phase' = "unmounted"
    /\ layers' = Remove(layers, "vector")
    /\ event' = [name |-> "layerCleanup"]
    /\ UNCHANGED <<map, drawType, target, interactions, features, log, nextId,
                   geocoder>>

\* The external geocoding service becomes reachable or unreachable.
GeocoderChange ==
    /\ phase # "unmounted"
    /\ geocoder' = IF geocoder = "up" THEN "down" ELSE "up"
    /\ event' = [name |-> "geocoder"]
    /\ UNCHANGED <<phase, map, drawType, target, layers, interactions,
                   features, log, nextId>>

Next ==
    \/ MountEffects
    \/ Render
    \/ LayerEffect
    \/ \E type \in Types : handleDraw(type)
    \/ \E d \in Range(interactions) : drawend(d)
    \/ Unmount
    \/ LayerCleanup
    \/ GeocoderChange

Spec == Init /\ [][Next]_vars

\* The Draw objects handleDraw has created so far that are no longer armed
\* (under any type they may have been created with), and the armed ones.
CreatedDraws ==
    Range(interactions) \cup
    {d \in [id : 1..nextId, type : Types] :
        \A a \in Range(interactions) : a.id # d.id}

\* map.removeInteraction(draw) on its own (line 119): the capture of Draw d
\* is disarmed, whether or not d is armed. `removed` is the call's result:
\* whether an element was taken out of the collection.
Disarm(d) ==
    /\ phase # "committed"
    /\ interactions' = Remove(interactions, d)
    /\ event' = [name |-> "removeInteraction", draw |-> d,
                 removed |-> (d \in Range(interactions))]
    /\ UNCHANGED <<phase, map, drawType, target, layers, features, log, nextId,
                   geocoder>>

NextDisarm == Next \/ \E d \in CreatedDraws : Disarm(d)

\* The component with removeInteraction also called outside drawend.
SpecDisarm == Init /\ [][NextDisarm]_vars

TypeOK ==
    /\ phase \in {"committed", "effectsRun", "rerendered", "ready", "cleanup",
                 "unmounted"}
    /\ map \in {NULL, MAP}
    /\ drawType \in Types \cup {NULL}
    /\ target \in {NULL, "div"}
    /\ nextId \in 0..MaxDraws
    /\ geocoder \in {"up", "down"}

----------------------------------------------------------------------------
\* A step in which the drawend listener of some Draw interaction ran.
Completed == event'.name = "drawend" /\ interactions' # interactions

\* A step in which handleDraw armed a new Draw interaction.
Armed == event'.name = "handleDraw" /\ nextId' = nextId + 1

\* The mode a logged result belongs to.
ModeOfLabel(label) ==
    IF label = "Point added:" THEN "Point"
    ELSE IF label = "Length:" THEN "LineString"
    ELSE "Polygon"

\* C1: in every reachable state at most one Draw interaction is armed on
\* the map.
C1_AtMostOneArmed == Len(interactions) <= 1

\* C2: when handleDraw arms a new interaction while an earlier one is still
\* armed, the earlier one is removed, so that right after the call the only
\* armed interaction is the one for the new mode.
C2_PreviousRetired ==
    [][(Armed /\ interactions # <<>>)
         => (Len(interactions') = 1 /\ interactions'[1].type = event'.type)]_vars

\* C3: a completion of a session that a later handleDraw has superseded
\* changes neither the mode of the newer session nor its armed interaction.
C3_StaleSuppressed ==
    [][(Completed /\ \E n \in Range(interactions) : n.id > event'.draw)
         => /\ drawType' = drawType
            /\ \A n \in Range(interactions) :
                 n.id > event'.draw => n \in Range(interactions')]_vars

\* C4: after every completion no interaction is armed, drawType is null and
\* the cursor is the idle one.
C4_IdleAfterCompletion ==
    [][Completed
         => (interactions' = <<>> /\ drawType' = NULL /\ Cursor' = "default")]_vars

\* C5: with the map and its overlay set up, the cursor is crosshair exactly
\* when a Draw interaction is armed on the map.
C5_CursorMatchesArmed ==
    phase = "ready" => ((Cursor = "crosshair") <=> (interactions # <<>>))

\* C6: the kind of result a completion produces equals the mode that is
\* active (drawType) when the completion is delivered.
C6_DispatchByActiveMode ==
    [][Completed => ModeOfLabel(log'[Len(log')].label) = drawType]_vars

\* C7: a completion delivered while drawType is null changes neither the
\* mode, nor the armed interactions, nor the overlay, nor the latest result.
C7_NoSessionNoOp ==
    [][(event'.name = "drawend" /\ drawType = NULL)
         => UNCHANGED <<drawType, interactions, features, layers, log>>]_vars

\* C8: a completed Point session returns to idle; its result is the
\* place-name summary when the lookup can succeed and the coordinate-only
\* summary when it fails.
C8_PointResult ==
    [][(Completed /\ log'[Len(log')].label = "Point added:")
         => /\ drawType' = NULL
            /\ log'[Len(log')].args =
                 IF geocoder = "up" THEN <<"placeName", "coords">>
                                    ELSE <<"coords">>]_vars

\* C9: handleDraw called while `map` is null changes neither drawType, nor
\* the armed interactions, nor the overlay.
C9_NullMapNoOp ==
    [][(event'.name = "handleDraw" /\ map = NULL)
         => UNCHANGED <<drawType, interactions, features, layers>>]_vars

\* A handleDraw call was made while `map` was null.
C9_Witness == event.name = "handleDraw" /\ map = NULL

\* C10: once a session has completed, the display slot shows the result of
\* the most recently completed session.
C10_ResultDisplayed ==
    (phase # "unmounted" /\ log # <<>>) => DisplaySlot = <<log[Len(log)]>>

\* C11: each completion adds exactly one feature to the overlay source, and
\* no other step (handleDraw, a lifecycle step) adds or removes a feature:
\* the features already in the overlay stay, in order.
C11_OverlayOnlyGrows ==
    [][IF event'.name = "drawend"
       THEN /\ Len(features') = Len(features) + 1
            /\ SubSeq(features', 1, Len(features)) = features
       ELSE features' = features]_vars

\* A second completion has added its feature after a first one.
C11_Witness == event.name = "drawend" /\ Len(features) >= 2

\* C12: the overlay layer is on the map only while the map surface exists:
\* it is attached after the map is created and detached before the map's
\* target is released.
C12_SurfaceOutlivesOverlay ==
    ("vector" \in Range(layers)) => target # NULL

\* C13: once the component has unmounted, no Draw interaction is left
\* armed on the map.
C13_BindingsReleased == phase = "unmounted" => interactions = <<>>

Ids(s) == {s[i].id : i \in DOMAIN s}

\* C15: no Draw interaction runs its drawend listener twice: the listener
\* runs only for an armed interaction, that interaction is not armed
\* afterwards, and an interaction that is no longer armed is never armed
\* again.
C15_CompletesAtMostOnce ==
    [][/\ event'.name = "drawend"
            => (event'.draw \in Ids(interactions)
                /\ event'.draw \notin Ids(interactions'))
       /\ \A k \in 1..nextId :
            k \notin Ids(interactions) => k \notin Ids(interactions')]_vars

\* A Draw interaction has run its drawend listener and is retired.
C15_Witness ==
    event.name = "drawend" /\ event.draw \notin Ids(interactions)

\* C16: a drawend listener removes exactly the Draw interaction it was
\* registered on, leaving the others armed in their order, and the result
\* it logs is the one for the type that interaction was created with.
C16_RemovesOwnDraw ==
    [][event'.name = "drawend"
         => \E i \in DOMAIN interactions :
              /\ interactions[i].id = event'.draw
              /\ interactions' =
                    [j \in 1..(Len(interactions) - 1) |->
                        IF j < i THEN interactions[j] ELSE interactions[j + 1]]
              /\ Len(log') = Len(log) + 1
              /\ ModeOfLabel(log'[Len(log')].label) = interactions[i].type]_vars

\* A drawend listener ran while a newer interaction of another type stayed
\* armed.
C16_Witness ==
    /\ event.name = "drawend"
    /\ \E a \in Range(interactions) :
         a.id > event.draw /\ a.type # ModeOfLabel(log[Len(log)].label)

\* C17: whenever handleDraw gets past its null guard, the layer at index 1
\* of the map (the second layer) is the overlay vector layer.
C17_OverlayAtIndexOne ==
    [][(event'.name = "handleDraw" /\ map # NULL)
         => (Len(layers) >= 2 /\ layers[2] = "vector")]_vars
====
